---- MODULE Spec2Model ----
(***************************************************************************)
(* Model of dashboard.py: the item store (load / normalize / save), the    *)
(* workflow engine (set_status, set_hours_and_complete, request_review,    *)
(* submit_back_to_owner, approve_item, revoke_approval), the comment       *)
(* ledger (append_history) and the handlers of the developer and owner     *)
(* boards that call them.                                                  *)
(*                                                                         *)
(* Representation.                                                         *)
(*  - Text (titles, comments) is a sequence of tokens; the whitespace      *)
(*    tokens are the members of Whitespace, and strip removes them from    *)
(*    both ends as str.strip() does.                                       *)
(*  - hours and rates are numbers of hundredths, amounts are cents; Python *)
(*    None in a numeric or timestamp field is the value None.              *)
(*  - timestamps are readings of a clock that never goes backwards; every  *)
(*    _now_iso() call of a handler is one reading.                         *)
(*  - uuid4 values (item ids, stored file names) are fresh numbers.        *)
(*  - a dict is a record (a function on its keys), x.get(k, d) is Get.     *)
(*  - an item of the collection in memory is a record of plain values; the *)
(*    dict it stands for, and every dict read from the data file, holds    *)
(*    Python values tagged with their type (AsDict), which is what         *)
(*    _coerce_item takes.                                                  *)
(* Item fields that no operation of the engine reads (type, client,        *)
(* project, billable, pr_url, owner_approved_at, owner_approved_by,        *)
(* review_requested_at, dev_response_at) are not carried.                  *)
(*                                                                         *)
(* A handler is one action: the engine calls it makes, the sanitize_items  *)
(* and save_data that end it, and the rerun. A form drawn under a button   *)
(* ("Edit & Submit to Owner") is taken to be submitted as the code reads.  *)
(*                                                                         *)
(* Spec runs the handlers on one item; SpecClock lets the clock move       *)
(* between two readings of a handler; SpecFiles uploads files, each store  *)
(* succeeding or raising; SpecStore loads, sanitizes and saves the         *)
(* documents a data file may hold; SpecEmpty is Spec started without       *)
(* stored items; SpecPair runs the handlers on up to two items.            *)
(***************************************************************************)
EXTENDS Integers, Sequences, FiniteSets, TLC

VARIABLES items, disk, awaiting_hours_id, now, next_uuid, writes, last

vars == <<items, disk, awaiting_hours_id, now, next_uuid, writes, last>>

-----------------------------------------------------------------------------
(* Bounds of the model *)

\* items in the collection, entries in one comment_history, uuid4 values
\* drawn, files in one upload
MaxItems == 1
MaxHist == 4
MaxUuid == 3
MaxUploads == 0

\* the last reading of the clock
MaxTime == 2

\* files in one upload, where files are uploaded
MaxFiles == 1

-----------------------------------------------------------------------------
(* Values *)

None == -1

STATUSES == <<"ready", "inprogress", "completed">>

Whitespace == {" "}

Range(s) == {s[i] : i \in DOMAIN s}

Get(x, k, d) == IF k \in DOMAIN x THEN x[k] ELSE d

RECURSIVE lstrip(_)
lstrip(s) ==
    IF s = <<>> THEN <<>>
    ELSE IF Head(s) \in Whitespace THEN lstrip(Tail(s)) ELSE s

RECURSIVE rstrip(_)
rstrip(s) ==
    IF s = <<>> THEN <<>>
    ELSE IF s[Len(s)] \in Whitespace THEN rstrip(SubSeq(s, 1, Len(s) - 1)) ELSE s

strip(s) == rstrip(lstrip(s))

\* as Round2, but cutting the digits after the second instead of rounding
Round2_truncated(h, r) == (h * r) \div 100

\* round(float(h) * float(r), 2) on hundredths: the product is in 1/10000,
\* the result in cents, to nearest (ties to even, as Python's round).
Round2(h, r) ==
    LET p == h * r
        q == p \div 100
        m == p % 100
    IN  IF m > 50 THEN q + 1
        ELSE IF m < 50 THEN q
        ELSE IF q % 2 = 0 THEN q ELSE q + 1

\* the readings of n successive _now_iso() calls made while the clock goes
\* from t to at most tmax
Stamps(t, n, tmax) ==
    {s \in [1..n -> t..tmax] : \A i \in 1..(n - 1) : s[i] <= s[i + 1]}

-----------------------------------------------------------------------------
(* Python values *)

\* A value whose type the code looks at (isinstance, str(), bool(), list(),
\* "or") is [type, val]. The val of a str is a sequence of tokens for text,
\* a name for status and actor, a clock reading for a timestamp and a number
\* for an id; a list holds its elements, a dict the record of its keys.
PyNone == [type |-> "NoneType"]
PyStr(s) == [type |-> "str", val |-> s]
PyFloat(n) == [type |-> "float", val |-> n]
PyBool(b) == [type |-> "bool", val |-> b]
PyList(l) == [type |-> "list", val |-> l]
PyDict(d) == [type |-> "dict", val |-> d]

\* {}
EmptyDict == [k \in {} |-> PyNone]

\* a stored value that is not a number, where the model keeps numbers
NotANumber == -2

\* bool(v), and the test of "v or d"
bool(v) ==
    CASE v.type = "NoneType" -> FALSE
      [] v.type = "bool" -> v.val
      [] v.type = "float" -> v.val # 0
      [] OTHER -> DOMAIN v.val # {}

\* str(v) of a text
str(v) ==
    CASE v.type = "str" -> v.val
      [] v.type = "NoneType" -> <<"None">>
      [] v.type = "bool" -> IF v.val THEN <<"True">> ELSE <<"False">>
      [] v.type = "float" -> <<ToString(v.val)>>
      [] OTHER -> <<"repr">>

\* list(v) is defined for these; for the others it raises TypeError
Iterable(v) == v.type \in {"list", "str", "dict"}

\* list(v): the elements of a list, the tokens of a text, the keys of a dict
list(v) ==
    CASE v.type = "list" -> v.val
      [] v.type = "str" -> v.val
      [] OTHER -> <<"keys">>

\* x.get(k) of hours, rate_at_completion, amount: copied as it is found
Copied(v) ==
    CASE v.type = "NoneType" -> None
      [] v.type = "float" -> v.val
      [] OTHER -> NotANumber

\* x.get("completed_at"): a timestamp or None
CopiedAt(v) == IF v.type = "str" THEN v.val ELSE None

\* the dict of an item of the collection in memory, and of one entry of its
\* history
Number(n) ==
    IF n = None THEN PyNone
    ELSE IF n = NotANumber THEN PyStr(<<"n/a">>) ELSE PyFloat(n)

Time(t) == IF t = None THEN PyNone ELSE PyStr(t)

EntryDict(e) ==
    [actor |-> PyStr(e.actor),
     comment |-> PyStr(e.comment),
     attachments |-> PyList(e.attachments),
     at |-> Time(e.at)]

AsDict(it) ==
    [id |-> PyStr(it.id),
     title |-> PyStr(it.title),
     status |-> PyStr(it.status),
     hours |-> Number(it.hours),
     rate_at_completion |-> Number(it.rate_at_completion),
     amount |-> Number(it.amount),
     created_at |-> Time(it.created_at),
     updated_at |-> Time(it.updated_at),
     completed_at |-> Time(it.completed_at),
     archived |-> PyBool(it.archived),
     owner_approved |-> PyBool(it.owner_approved),
     review_requested |-> PyBool(it.review_requested),
     review_comments |-> PyStr(it.review_comments),
     dev_response_comments |-> PyStr(it.dev_response_comments),
     attachments |-> PyList(it.attachments),
     comment_history |->
        PyList([i \in 1..Len(it.comment_history) |->
                   PyDict(EntryDict(it.comment_history[i]))])]

-----------------------------------------------------------------------------
(* Persistence / helpers *)

\* as OrNow, reading the clock whatever is stored
OrNow_always(v, t) == t

\* e.get("at") or _now_iso(), x.get("created_at") or _now_iso()
OrNow(v, t) == IF v.type = "str" THEN v.val ELSE t

\* one entry of comment_history, lines 52-57; e is a dict
CoerceEntry(e, t) ==
    LET actor == Get(e, "actor", PyStr("system"))
        comment == Get(e, "comment", PyStr(<<>>))
        atts == Get(e, "attachments", PyList(<<>>))
    IN  [actor |-> IF actor.type = "str" THEN actor.val ELSE "None",
         comment |-> IF bool(comment) THEN str(comment) ELSE <<>>,
         attachments |-> IF bool(atts) THEN list(atts) ELSE <<>>,
         at |-> OrNow(Get(e, "at", PyNone), t)]

\* lines 45-51: the dict entries of a list comment_history
Entries(x) ==
    LET ch == Get(x, "comment_history", PyNone)
    IN  IF ch.type = "list"
        THEN SelectSeq(ch.val, LAMBDA e : e.type = "dict")
        ELSE <<>>

\* as _coerce_item, without lines 90-91
_coerce_item_any_status(x, u, t) ==
    LET ch == Entries(x)
        st == Get(x, "status", PyNone)
    IN  [id |-> Get(x, "id", PyStr(u)).val,
         title |-> strip(str(Get(x, "title", PyStr(<<>>)))),
         status |-> IF st.type = "str" THEN st.val ELSE "ready",
         hours |-> Copied(Get(x, "hours", PyNone)),
         rate_at_completion |-> Copied(Get(x, "rate_at_completion", PyNone)),
         amount |-> Copied(Get(x, "amount", PyNone)),
         created_at |-> OrNow(Get(x, "created_at", PyNone), t),
         updated_at |-> OrNow(Get(x, "updated_at", PyNone), t),
         completed_at |-> CopiedAt(Get(x, "completed_at", PyNone)),
         archived |-> bool(Get(x, "archived", PyBool(FALSE))),
         owner_approved |-> bool(Get(x, "owner_approved", PyBool(FALSE))),
         review_requested |-> bool(Get(x, "review_requested", PyBool(FALSE))),
         review_comments |-> strip(str(Get(x, "review_comments", PyStr(<<>>)))),
         dev_response_comments |->
             strip(str(Get(x, "dev_response_comments", PyStr(<<>>)))),
         attachments |-> list(Get(x, "attachments", PyList(<<>>))),
         comment_history |-> [i \in 1..Len(ch) |-> CoerceEntry(ch[i].val, t)]]

\* x is a dict; u is the uuid4 drawn, t the reading of _now_iso()
_coerce_item(x, u, t) ==
    LET ch == Entries(x)
        st == Get(x, "status", PyNone)
    IN  [id |-> Get(x, "id", PyStr(u)).val,
         title |-> strip(str(Get(x, "title", PyStr(<<>>)))),
         status |-> IF st.type = "str" /\ st.val \in Range(STATUSES)
                    THEN st.val ELSE "ready",
         hours |-> Copied(Get(x, "hours", PyNone)),
         rate_at_completion |-> Copied(Get(x, "rate_at_completion", PyNone)),
         amount |-> Copied(Get(x, "amount", PyNone)),
         created_at |-> OrNow(Get(x, "created_at", PyNone), t),
         updated_at |-> OrNow(Get(x, "updated_at", PyNone), t),
         completed_at |-> CopiedAt(Get(x, "completed_at", PyNone)),
         archived |-> bool(Get(x, "archived", PyBool(FALSE))),
         owner_approved |-> bool(Get(x, "owner_approved", PyBool(FALSE))),
         review_requested |-> bool(Get(x, "review_requested", PyBool(FALSE))),
         review_comments |-> strip(str(Get(x, "review_comments", PyStr(<<>>)))),
         dev_response_comments |->
             strip(str(Get(x, "dev_response_comments", PyStr(<<>>)))),
         attachments |-> list(Get(x, "attachments", PyList(<<>>))),
         comment_history |-> [i \in 1..Len(ch) |-> CoerceEntry(ch[i].val, t)]]

\* _coerce_item(x) raises TypeError: list() of a value that is not iterable,
\* at line 86 or at line 55
CoerceRaises(x) ==
    \/ ~Iterable(Get(x, "attachments", PyList(<<>>)))
    \/ \E i \in DOMAIN Entries(x) :
          LET atts == Get(Entries(x)[i].val, "attachments", PyList(<<>>))
          IN  bool(atts) /\ ~Iterable(atts)

\* The document is [shape, recs]: "missing" (no file), "unparsable",
\* "list" (recs are its elements), "items" (a dict whose "items" is the list
\* recs), "mapping" (any other dict, recs are its values), "scalar".
\* save_data writes the bare list.

\* the records of the document that are coerced
Records(obj) ==
    CASE obj.shape \in {"list", "items"} ->
            SelectSeq(obj.recs, LAMBDA d : d.type = "dict")
      [] obj.shape = "mapping"
            /\ obj.recs # <<>>
            /\ \A i \in DOMAIN obj.recs : obj.recs[i].type = "dict" -> obj.recs
      [] OTHER -> <<>>

\* the number of records before the i-th that were given a fresh uuid4
FreshBefore(recs, i) ==
    Cardinality({j \in 1..(i - 1) : "id" \notin DOMAIN recs[j].val})

_normalize_loaded(obj, u, t) ==
    LET recs == Records(obj)
    IN  [i \in 1..Len(recs) |->
            _coerce_item(recs[i].val, u + FreshBefore(recs, i), t)]

\* lines 107-108, and lines 109-114: [] when json.load or a coercion raises
load_data(doc, u, t) ==
    IF doc.shape \in {"missing", "unparsable"} THEN <<>>
    ELSE IF \E i \in DOMAIN Records(doc) : CoerceRaises(Records(doc)[i].val)
         THEN <<>>
         ELSE _normalize_loaded(doc, u, t)

\* as save_data, with every comment_history left out of the document
save_data_without_history(its) ==
    [shape |-> "list",
     recs |-> [i \in 1..Len(its) |->
                  PyDict([k \in DOMAIN AsDict(its[i]) \ {"comment_history"} |->
                             AsDict(its[i])[k]])]]

save_data(its) ==
    [shape |-> "list", recs |-> [i \in 1..Len(its) |-> PyDict(AsDict(its[i]))]]

sanitize_items(its, u, t) ==
    [i \in 1..Len(its) |-> _coerce_item(AsDict(its[i]), u, t)]

-----------------------------------------------------------------------------
(* Item utilities *)

new_item(title, item_id, t) ==
    [id |-> item_id,
     title |-> strip(title),
     status |-> "ready",
     hours |-> None,
     rate_at_completion |-> None,
     amount |-> None,
     created_at |-> t,
     updated_at |-> t,
     completed_at |-> None,
     archived |-> FALSE,
     owner_approved |-> FALSE,
     review_requested |-> FALSE,
     review_comments |-> <<>>,
     dev_response_comments |-> <<>>,
     attachments |-> <<>>,
     comment_history |->
        <<[actor |-> "system", comment |-> <<"Task created">>,
           attachments |-> <<>>, at |-> t]>>]

\* index of the first item with this id, 0 when there is none
Find(its, item_id) ==
    IF \E i \in DOMAIN its : its[i].id = item_id
    THEN CHOOSE i \in DOMAIN its :
            /\ its[i].id = item_id
            /\ \A j \in 1..(i - 1) : its[j].id # item_id
    ELSE 0

\* as get_items_by_status, without the test of the status
get_items_by_status_any(its, status) ==
    SelectSeq(its, LAMBDA it : ~it.archived)

get_items_by_status(its, status) ==
    SelectSeq(its, LAMBDA it : it.status = status /\ ~it.archived)

\* as set_status, also clearing the hours of the item
set_status_resetting_hours(its, item_id, new_status, t) ==
    LET i == Find(its, item_id)
    IN  IF i = 0 THEN its
        ELSE [its EXCEPT ![i] =
                [@ EXCEPT !.status = new_status,
                          !.updated_at = t,
                          !.hours = None,
                          !.completed_at =
                              IF new_status # "completed" THEN None ELSE @]]

set_status(its, item_id, new_status, t) ==
    LET i == Find(its, item_id)
    IN  IF i = 0 THEN its
        ELSE [its EXCEPT ![i] =
                [@ EXCEPT !.status = new_status,
                          !.updated_at = t,
                          !.completed_at =
                              IF new_status # "completed" THEN None ELSE @]]

\* An engine operation that writes returns [its, wr]: the collection it
\* leaves in memory and the documents it wrote, in order.

\* as set_hours_and_complete, without the assignment of archived
set_hours_and_complete_unarchived(its, item_id, hours, rate_now, ts) ==
    LET i == Find(its, item_id)
        new == [its EXCEPT ![i] =
                [@ EXCEPT !.hours = hours,
                          !.status = "completed",
                          !.completed_at = ts[1],
                          !.updated_at = ts[2],
                          !.rate_at_completion = rate_now,
                          !.amount = Round2(hours, rate_now),
                          !.owner_approved = FALSE,
                          !.review_requested = FALSE,
                          !.review_comments = <<>>,
                          !.comment_history = Append(@,
                              [actor |-> "dev",
                               comment |-> <<"Completed by developer: ",
                                             ToString(hours), "h @ ",
                                             ToString(rate_now)>>,
                               attachments |-> <<>>,
                               at |-> ts[3]])]]
    IN  IF i = 0 THEN [its |-> its, wr |-> <<>>]
        ELSE [its |-> new, wr |-> <<save_data(new)>>]

\* as set_hours_and_complete, leaving the review flag as it is
set_hours_and_complete_in_review(its, item_id, hours, rate_now, ts) ==
    LET i == Find(its, item_id)
        new == [its EXCEPT ![i] =
                [@ EXCEPT !.hours = hours,
                          !.status = "completed",
                          !.completed_at = ts[1],
                          !.updated_at = ts[2],
                          !.rate_at_completion = rate_now,
                          !.amount = Round2(hours, rate_now),
                          !.archived = TRUE,
                          !.owner_approved = FALSE,
                          !.comment_history = Append(@,
                              [actor |-> "dev",
                               comment |-> <<"Completed by developer: ",
                                             ToString(hours), "h @ ",
                                             ToString(rate_now)>>,
                               attachments |-> <<>>,
                               at |-> ts[3]])]]
    IN  IF i = 0 THEN [its |-> its, wr |-> <<>>]
        ELSE [its |-> new, wr |-> <<save_data(new)>>]

\* ts: the readings for completed_at, updated_at and the history entry
set_hours_and_complete(its, item_id, hours, rate_now, ts) ==
    LET i == Find(its, item_id)
        new == [its EXCEPT ![i] =
                [@ EXCEPT !.hours = hours,
                          !.status = "completed",
                          !.completed_at = ts[1],
                          !.updated_at = ts[2],
                          !.rate_at_completion = rate_now,
                          !.amount = Round2(hours, rate_now),
                          !.archived = TRUE,
                          !.owner_approved = FALSE,
                          !.review_requested = FALSE,
                          !.review_comments = <<>>,
                          !.comment_history = Append(@,
                              [actor |-> "dev",
                               comment |-> <<"Completed by developer: ",
                                             ToString(hours), "h @ ",
                                             ToString(rate_now)>>,
                               attachments |-> <<>>,
                               at |-> ts[3]])]]
    IN  IF i = 0 THEN [its |-> its, wr |-> <<>>]
        ELSE [its |-> new, wr |-> <<save_data(new)>>]

set_archived(its, item_id, archived, t) ==
    LET i == Find(its, item_id)
        new == [its EXCEPT ![i] = [@ EXCEPT !.archived = archived, !.updated_at = t]]
    IN  IF i = 0 THEN [its |-> its, wr |-> <<>>]
        ELSE [its |-> new, wr |-> <<save_data(new)>>]

-----------------------------------------------------------------------------
(* Attachment helpers *)

\* the path _save_uploaded_file returns for the k-th file of an upload whose
\* first uuid4 is u
_save_uploaded_file(item_id, u, k) == <<item_id, u + k - 1>>

SavedPaths(item_id, u, n) == [k \in 1..n |-> _save_uploaded_file(item_id, u, k)]

RECURSIVE AddMissing(_, _)
AddMissing(atts, paths) ==
    IF paths = <<>> THEN atts
    ELSE AddMissing(IF Head(paths) \in Range(atts) THEN atts
                    ELSE Append(atts, Head(paths)),
                    Tail(paths))

-----------------------------------------------------------------------------
(* Comment history flows *)

\* as append_history, without lines 242-243
append_history_unmirrored(its, item_id, actor, comment, paths, ts) ==
    LET i == Find(its, item_id)
        new == [its EXCEPT ![i] =
                [@ EXCEPT !.comment_history = Append(@,
                              [actor |-> actor, comment |-> comment,
                               attachments |-> paths, at |-> ts[1]]),
                          !.updated_at = ts[2]]]
    IN  IF i = 0 THEN [its |-> its, wr |-> <<>>]
        ELSE [its |-> new, wr |-> <<save_data(new)>>]

\* as append_history, with the new entry put in the place of the last one
append_history_overwriting(its, item_id, actor, comment, paths, ts) ==
    LET i == Find(its, item_id)
        new == [its EXCEPT ![i] =
                [@ EXCEPT !.attachments = AddMissing(@, paths),
                          !.comment_history =
                              [@ EXCEPT ![Len(@)] =
                                  [actor |-> actor, comment |-> comment,
                                   attachments |-> paths, at |-> ts[1]]],
                          !.updated_at = ts[2]]]
    IN  IF i = 0 THEN [its |-> its, wr |-> <<>>]
        ELSE [its |-> new, wr |-> <<save_data(new)>>]

\* paths: what _save_uploaded_file returned for the uploaded files;
\* ts: the readings for the entry and for updated_at
append_history(its, item_id, actor, comment, paths, ts) ==
    LET i == Find(its, item_id)
        new == [its EXCEPT ![i] =
                [@ EXCEPT !.attachments = AddMissing(@, paths),
                          !.comment_history = Append(@,
                              [actor |-> actor, comment |-> comment,
                               attachments |-> paths, at |-> ts[1]]),
                          !.updated_at = ts[2]]]
    IN  IF i = 0 THEN [its |-> its, wr |-> <<>>]
        ELSE [its |-> new, wr |-> <<save_data(new)>>]

\* as request_review, without line 271
request_review_still_archived(its, item_id, owner_comment, paths, ts) ==
    LET i == Find(its, item_id)
        flagged == [its EXCEPT ![i] =
                    [@ EXCEPT !.review_requested = TRUE,
                              !.review_comments = owner_comment,
                              !.owner_approved = FALSE,
                              !.status = "inprogress"]]
        app == append_history(flagged, item_id, "owner", owner_comment, paths, ts)
    IN  IF i = 0 THEN [its |-> its, wr |-> <<>>]
        ELSE [its |-> app.its, wr |-> app.wr \o <<save_data(app.its)>>]

request_review(its, item_id, owner_comment, paths, ts) ==
    LET i == Find(its, item_id)
        flagged == [its EXCEPT ![i] =
                    [@ EXCEPT !.review_requested = TRUE,
                              !.review_comments = owner_comment,
                              !.owner_approved = FALSE,
                              !.status = "inprogress",
                              !.archived = FALSE]]
        app == append_history(flagged, item_id, "owner", owner_comment, paths, ts)
    IN  IF i = 0 THEN [its |-> its, wr |-> <<>>]
        ELSE [its |-> app.its, wr |-> app.wr \o <<save_data(app.its)>>]

\* hours, rate_now: a number or None; ts: the readings of append_history,
\* then completed_at and updated_at
submit_back_to_owner(its, item_id, dev_comment, paths, hours, rate_now, ts) ==
    LET i == Find(its, item_id)
        app == append_history(its, item_id, "dev", dev_comment, paths, ts)
        it0 == app.its[i]
        h == IF hours # None THEN hours ELSE it0.hours
        r == IF rate_now # None THEN rate_now ELSE it0.rate_at_completion
        new == [app.its EXCEPT ![i] =
                [@ EXCEPT !.dev_response_comments = dev_comment,
                          !.hours = h,
                          !.rate_at_completion = r,
                          !.amount = IF h # None /\ r # None
                                     THEN Round2(h, r) ELSE @,
                          !.status = "completed",
                          !.completed_at = ts[3],
                          !.updated_at = ts[4],
                          !.archived = TRUE,
                          !.review_requested = FALSE,
                          !.review_comments = <<>>,
                          !.owner_approved = FALSE]]
    IN  IF i = 0 THEN [its |-> its, wr |-> <<>>]
        ELSE [its |-> new, wr |-> app.wr \o <<save_data(new)>>]

\* as approve_item, without line 330
approve_item_silent(its, item_id, ts) ==
    LET i == Find(its, item_id)
        new == [its EXCEPT ![i] =
                   [@ EXCEPT !.owner_approved = TRUE, !.updated_at = ts[3]]]
    IN  IF i = 0 THEN [its |-> its, wr |-> <<>>]
        ELSE [its |-> new, wr |-> <<save_data(new)>>]

\* ts: the readings of append_history, then updated_at
approve_item(its, item_id, ts) ==
    LET i == Find(its, item_id)
        flagged == [its EXCEPT ![i] = [@ EXCEPT !.owner_approved = TRUE]]
        app == append_history(flagged, item_id, "owner", <<"Approved">>, <<>>, ts)
        new == [app.its EXCEPT ![i] = [@ EXCEPT !.updated_at = ts[3]]]
    IN  IF i = 0 THEN [its |-> its, wr |-> <<>>]
        ELSE [its |-> new, wr |-> app.wr \o <<save_data(new)>>]

\* as revoke_approval, taking the approval from every item of the list
revoke_approval_everywhere(its, item_id, ts) ==
    LET i == Find(its, item_id)
        flagged == [j \in DOMAIN its |-> [its[j] EXCEPT !.owner_approved = FALSE]]
        app == append_history(flagged, item_id, "owner", <<"Revoked approval">>, <<>>, ts)
        new == [app.its EXCEPT ![i] = [@ EXCEPT !.updated_at = ts[3]]]
    IN  IF i = 0 THEN [its |-> its, wr |-> <<>>]
        ELSE [its |-> new, wr |-> app.wr \o <<save_data(new)>>]

revoke_approval(its, item_id, ts) ==
    LET i == Find(its, item_id)
        flagged == [its EXCEPT ![i] = [@ EXCEPT !.owner_approved = FALSE]]
        app == append_history(flagged, item_id, "owner", <<"Revoked approval">>, <<>>, ts)
        new == [app.its EXCEPT ![i] = [@ EXCEPT !.updated_at = ts[3]]]
    IN  IF i = 0 THEN [its |-> its, wr |-> <<>>]
        ELSE [its |-> new, wr |-> app.wr \o <<save_data(new)>>]

\* _save_uploaded_file raises (open or write fails, lines 29-30) for one file
\* of the upload: append_history has put the paths of the files before it in
\* the flat list (line 243) and the exception leaves it at line 240
append_history_raising(its, item_id, paths) ==
    LET i == Find(its, item_id)
    IN  [its |-> [its EXCEPT ![i].attachments = AddMissing(@, paths)],
         wr |-> <<>>]

\* request_review has set lines 264-271 when append_history raises
request_review_raising(its, item_id, owner_comment, paths) ==
    LET i == Find(its, item_id)
        flagged == [its EXCEPT ![i] =
                    [@ EXCEPT !.review_requested = TRUE,
                              !.review_comments = owner_comment,
                              !.owner_approved = FALSE,
                              !.status = "inprogress",
                              !.archived = FALSE]]
    IN  append_history_raising(flagged, item_id, paths)

\* submit_back_to_owner calls append_history first (line 287)
submit_back_to_owner_raising(its, item_id, paths) ==
    append_history_raising(its, item_id, paths)

-----------------------------------------------------------------------------
(* Inputs of the forms *)

Titles == {<<>>, <<" ">>, <<"Fix bug", " ">>}
Comments == {<<>>, <<" ">>, <<"note", " ">>}
HoursInputs == {0, 33, 250}
RateInputs == {0, 36}

\* the documents the data file may hold when a session starts
StoredRecord ==
    [id |-> 1, title |-> <<"Fix bug">>, status |-> "completed",
     hours |-> 250, rate_at_completion |-> 8000, amount |-> 100,
     created_at |-> 0, updated_at |-> 0, completed_at |-> 0,
     archived |-> TRUE, owner_approved |-> FALSE, review_requested |-> FALSE,
     review_comments |-> <<>>, dev_response_comments |-> <<>>,
     attachments |-> <<>>,
     comment_history |->
        <<[actor |-> "system", comment |-> <<"Task created">>,
           attachments |-> <<>>, at |-> 0]>>]

StoredDocs ==
    {[shape |-> "missing", recs |-> <<>>],
     [shape |-> "list", recs |-> <<>>],
     [shape |-> "list",
      recs |-> <<PyDict([title |-> PyStr(<<" ", "Fix bug">>),
                         status |-> PyStr("done")])>>],
     [shape |-> "list",
      recs |-> <<PyDict([id |-> PyStr(1), title |-> PyStr(<<"Fix bug">>)])>>],
     [shape |-> "list", recs |-> <<PyDict(AsDict(StoredRecord))>>]}

-----------------------------------------------------------------------------
(* The record of the last user action *)

\* op: the handler; ok: FALSE when it refused its input; id, hours, rate:
\* the item and the numbers handed to the engine (None when there are none)
Last(op, item_id, hours, rate, ok) ==
    [op |-> op, id |-> item_id, hours |-> hours, rate |-> rate, ok |-> ok]

Refused(op) == Last(op, None, None, None, FALSE)

Item(item_id) == items[Find(items, item_id)]

Ids == {items[i].id : i \in DOMAIN items}

InColumn(item_id, status) ==
    \E i \in DOMAIN get_items_by_status(items, status) :
        get_items_by_status(items, status)[i].id = item_id

HistLen(item_id) == Len(Item(item_id).comment_history)

\* as Finish, without the save_data that ends the handler
Finish_unsaved(r, t) ==
    /\ items' = sanitize_items(r.its, next_uuid', t)
    /\ disk' = IF r.wr = <<>> THEN disk ELSE r.wr[Len(r.wr)]
    /\ writes' = r.wr
    /\ now' = t

\* a handler ends with sanitize_items, save_data and a rerun; r is what the
\* engine left, t the clock at the end
Finish(r, t) ==
    /\ items' = sanitize_items(r.its, next_uuid', t)
    /\ disk' = save_data(items')
    /\ writes' = r.wr \o <<save_data(items')>>
    /\ now' = t

\* a handler that refuses its input: a message is shown, nothing else
Refuse ==
    /\ writes' = <<>>
    /\ UNCHANGED <<items, disk, awaiting_hours_id, now, next_uuid>>

-----------------------------------------------------------------------------
(* Session state init + sanitize *)

Init ==
    /\ disk \in StoredDocs
    /\ now = 0
    /\ items = sanitize_items(load_data(disk, 1, now), 1, now)
    /\ next_uuid = 1 + Len(items)
    /\ awaiting_hours_id = None
    /\ writes = <<>>
    /\ last = Last("load", None, None, None, TRUE)

\* a new session of the same process: the state is loaded again; every
\* stored record without an id draws a uuid4
LoadSession ==
    /\ next_uuid + FreshBefore(Records(disk), Len(Records(disk)) + 1) - 1 <= MaxUuid
    /\ items' = sanitize_items(load_data(disk, next_uuid, now), next_uuid, now)
    /\ next_uuid' = next_uuid + FreshBefore(Records(disk), Len(Records(disk)) + 1)
    /\ awaiting_hours_id' = None
    /\ writes' = <<>>
    /\ last' = Last("load", None, None, None, TRUE)
    /\ UNCHANGED <<disk, now>>

-----------------------------------------------------------------------------
(* Sidebar: add form *)

AddItem(title, n, max_items, tmax) ==
    /\ IF strip(title) = <<>> THEN Refuse /\ last' = Refused("create")
       ELSE /\ Len(items) < max_items
            /\ last' = Last("create", next_uuid, None, None, TRUE)
            /\ next_uuid + n <= MaxUuid
            /\ \E ts \in Stamps(now, 2, tmax) :
                LET item_id == next_uuid
                    base == new_item(title, item_id, ts[1])
                    saved_paths == SavedPaths(item_id, next_uuid + 1, n)
                    item == [base EXCEPT
                               !.attachments = @ \o saved_paths,
                               !.comment_history =
                                   IF saved_paths # <<>>
                                   THEN Append(@, [actor |-> "dev",
                                                   comment |-> <<"Initial attachments">>,
                                                   attachments |-> saved_paths,
                                                   at |-> ts[2]])
                                   ELSE @]
                IN  /\ next_uuid' = next_uuid + 1 + n
                    /\ Finish([its |-> Append(items, item), wr |-> <<>>], ts[2])
            /\ UNCHANGED awaiting_hours_id

-----------------------------------------------------------------------------
(* Developer board *)

\* k more uuid4 values and k more history entries stay within the bounds
FreshOk(k) == next_uuid + k - 1 <= MaxUuid
HistOk(item_id, k) == HistLen(item_id) + k <= MaxHist

\* lines 634-639 and 721-726: each uploaded file is stored, its path is put
\* in the flat list, and append_history is called with the same file
RECURSIVE AttachEach(_, _, _, _, _, _)
AttachEach(r, item_id, comment, u, n, ts) ==
    IF n = 0 THEN r
    ELSE LET i == Find(r.its, item_id)
             saved == _save_uploaded_file(item_id, u, 1)
             its1 == [r.its EXCEPT ![i].attachments = AddMissing(@, <<saved>>)]
             app == append_history(its1, item_id, "dev", comment,
                                   SavedPaths(item_id, u + 1, 1), ts)
         IN  AttachEach([its |-> app.its, wr |-> r.wr \o app.wr],
                        item_id, comment, u + 2, n - 1, SubSeq(ts, 3, Len(ts)))

\* "-> In Progress" of the ready column
Start(item_id, tmax) ==
    /\ InColumn(item_id, "ready")
    /\ \E ts \in Stamps(now, 1, tmax) :
        Finish([its |-> set_status(items, item_id, "inprogress", ts[1]),
                wr |-> <<>>], ts[1])
    /\ last' = Last("start", item_id, None, None, TRUE)
    /\ UNCHANGED <<awaiting_hours_id, next_uuid>>

\* "Delete" of the ready column
Delete(item_id) ==
    /\ InColumn(item_id, "ready")
    /\ Finish([its |-> SelectSeq(items, LAMBDA x : x.id # item_id),
               wr |-> <<>>], now)
    /\ last' = Last("delete", item_id, None, None, TRUE)
    /\ UNCHANGED <<awaiting_hours_id, next_uuid>>

\* "Save" of the edit form of the ready column
SaveEdit(item_id, new_title, n, tmax) ==
    /\ InColumn(item_id, "ready")
    /\ FreshOk(2 * n)
    /\ HistOk(item_id, n)
    /\ \E ts \in Stamps(now, 2 * n + 1, tmax) :
        LET i == Find(items, item_id)
            its1 == [items EXCEPT ![i].title = strip(new_title)]
            r == AttachEach([its |-> its1, wr |-> <<>>], item_id,
                            <<"Added attachment">>, next_uuid, n, ts)
            its2 == [r.its EXCEPT ![i].updated_at = ts[2 * n + 1]]
        IN  /\ next_uuid' = next_uuid + 2 * n
            /\ Finish([its |-> its2, wr |-> r.wr], ts[2 * n + 1])
    /\ last' = Last("edit", item_id, None, None, TRUE)
    /\ UNCHANGED awaiting_hours_id

\* hours=(dev_hours if dev_hours and dev_hours > 0 else None)
Positive(x) == IF x # 0 /\ x > 0 THEN x ELSE None

\* "Submit to Owner" of the edit forms of both columns; the form of the
\* ready column stores the title it was given first (lines 649-651)
SubmitToOwner(item_id, new_title, dev_resp, n, dev_hours, dev_rate, tmax) ==
    /\ IF strip(dev_resp) = <<>>
       THEN Refuse /\ last' = Refused("respond_to_changes")
       ELSE /\ FreshOk(n)
            /\ last' = Last("respond_to_changes", item_id, Positive(dev_hours),
                            Positive(dev_rate), TRUE)
            /\ HistOk(item_id, 1)
            /\ \E ts \in Stamps(now, 4, tmax) :
                LET i == Find(items, item_id)
                    its1 == [items EXCEPT ![i].title = strip(new_title)]
                    r == submit_back_to_owner(its1, item_id, dev_resp,
                             SavedPaths(item_id, next_uuid, n),
                             Positive(dev_hours), Positive(dev_rate), ts)
                IN  /\ next_uuid' = next_uuid + n
                    /\ Finish(r, ts[4])
            /\ UNCHANGED awaiting_hours_id

SubmitFromReady(item_id, new_title, dev_resp, n, dev_hours, dev_rate, tmax) ==
    /\ InColumn(item_id, "ready")
    /\ SubmitToOwner(item_id, new_title, dev_resp, n, dev_hours, dev_rate, tmax)

SubmitFromInProgress(item_id, dev_resp, n, dev_hours, dev_rate, tmax) ==
    /\ InColumn(item_id, "inprogress")
    /\ SubmitToOwner(item_id, Item(item_id).title, dev_resp, n, dev_hours,
                     dev_rate, tmax)

\* "<- Ready" of the in-progress column
Reopen(item_id, tmax) ==
    /\ InColumn(item_id, "inprogress")
    /\ \E ts \in Stamps(now, 1, tmax) :
        Finish([its |-> set_status(items, item_id, "ready", ts[1]),
                wr |-> <<>>], ts[1])
    /\ last' = Last("reopen", item_id, None, None, TRUE)
    /\ UNCHANGED <<awaiting_hours_id, next_uuid>>

\* "Complete (Save Hours)" of the in-progress column opens the hours form
ClickComplete(item_id) ==
    /\ InColumn(item_id, "inprogress")
    /\ awaiting_hours_id' = item_id
    /\ writes' = <<>>
    /\ last' = Last("open_hours_form", item_id, None, None, TRUE)
    /\ UNCHANGED <<items, disk, now, next_uuid>>

\* the hours form is drawn under the card of the item it was opened for, in
\* whichever column the item is now
HoursFormShown(item_id) ==
    /\ awaiting_hours_id = item_id
    /\ InColumn(item_id, "ready") \/ InColumn(item_id, "inprogress")

\* "Save Hours & Complete"
HoursFormSave(item_id, hrs, rate_now, n, tmax) ==
    /\ HoursFormShown(item_id)
    /\ FreshOk(2 * n)
    /\ HistOk(item_id, 1 + n)
    /\ \E ts \in Stamps(now, 3 + 2 * n, tmax) :
        LET updated == set_hours_and_complete(items, item_id, hrs, rate_now, ts)
            r == AttachEach(updated, item_id, <<"Added attachments on completion">>,
                            next_uuid, n, SubSeq(ts, 4, Len(ts)))
        IN  /\ next_uuid' = next_uuid + 2 * n
            /\ Finish(r, ts[3 + 2 * n])
    /\ awaiting_hours_id' = None
    /\ last' = Last("complete", item_id, hrs, rate_now, TRUE)

\* "Cancel" of the hours form
HoursFormCancel(item_id) ==
    /\ HoursFormShown(item_id)
    /\ awaiting_hours_id' = None
    /\ writes' = <<>>
    /\ last' = Last("cancel_hours_form", item_id, None, None, TRUE)
    /\ UNCHANGED <<items, disk, now, next_uuid>>

-----------------------------------------------------------------------------
(* Owner board *)

\* as NeedsApproval, true of every item whatever its status
NeedsApproval_any(item_id) ==
    \E i \in DOMAIN items :
        /\ items[i].id = item_id
        /\ ~items[i].owner_approved

NeedsApproval(item_id) ==
    \E i \in DOMAIN items :
        /\ items[i].id = item_id
        /\ items[i].status = "completed"
        /\ ~items[i].owner_approved

Approved(item_id) ==
    \E i \in DOMAIN items :
        /\ items[i].id = item_id
        /\ items[i].status = "completed"
        /\ items[i].owner_approved

\* "Approve" of a card of Needs Approval
Approve(item_id, tmax) ==
    /\ NeedsApproval(item_id)
    /\ HistOk(item_id, 1)
    /\ \E ts \in Stamps(now, 3, tmax) : Finish(approve_item(items, item_id, ts), ts[3])
    /\ last' = Last("approve", item_id, None, None, TRUE)
    /\ UNCHANGED <<awaiting_hours_id, next_uuid>>

\* as RequestChanges, with the comment looked at only after request_review
\* has run
RequestChanges_checked_late(item_id, review_txt, n, tmax) ==
    /\ NeedsApproval(item_id)
    /\ FreshOk(n)
    /\ HistOk(item_id, 1)
    /\ last' = IF strip(review_txt) = <<>> THEN Refused("request_changes")
               ELSE Last("request_changes", item_id, None, None, TRUE)
    /\ \E ts \in Stamps(now, 2, tmax) :
        /\ next_uuid' = next_uuid + n
        /\ Finish(request_review(items, item_id, strip(review_txt),
                      SavedPaths(item_id, next_uuid, n), ts), ts[2])
    /\ UNCHANGED awaiting_hours_id

\* "Request changes / Send to Developer" of a card of Needs Approval
RequestChanges(item_id, review_txt, n, tmax) ==
    /\ NeedsApproval(item_id)
    /\ IF strip(review_txt) = <<>>
       THEN Refuse /\ last' = Refused("request_changes")
       ELSE /\ FreshOk(n)
            /\ last' = Last("request_changes", item_id, None, None, TRUE)
            /\ HistOk(item_id, 1)
            /\ \E ts \in Stamps(now, 2, tmax) :
                /\ next_uuid' = next_uuid + n
                /\ Finish(request_review(items, item_id, strip(review_txt),
                              SavedPaths(item_id, next_uuid, n), ts), ts[2])
            /\ UNCHANGED awaiting_hours_id

\* "Revoke approval" of a card of Approved Tasks
Revoke(item_id, tmax) ==
    /\ Approved(item_id)
    /\ HistOk(item_id, 1)
    /\ \E ts \in Stamps(now, 3, tmax) : Finish(revoke_approval(items, item_id, ts), ts[3])
    /\ last' = Last("revoke", item_id, None, None, TRUE)
    /\ UNCHANGED <<awaiting_hours_id, next_uuid>>

-----------------------------------------------------------------------------
(* Specification *)

Uploads == 0..MaxUploads

\* one item at a time, under a clock too coarse to tell the readings of one
\* session apart
Next ==
    \/ LoadSession
    \/ \E title \in Titles, n \in Uploads : AddItem(title, n, MaxItems, now)
    \/ \E item_id \in Ids : Start(item_id, now)
    \/ \E item_id \in Ids : Delete(item_id)
    \/ \E item_id \in Ids, title \in Titles, n \in Uploads :
          SaveEdit(item_id, title, n, now)
    \/ \E item_id \in Ids, title \in Titles, c \in Comments, n \in Uploads,
          h \in HoursInputs, r \in RateInputs :
          SubmitFromReady(item_id, title, c, n, h, r, now)
    \/ \E item_id \in Ids, c \in Comments, n \in Uploads,
          h \in HoursInputs, r \in RateInputs :
          SubmitFromInProgress(item_id, c, n, h, r, now)
    \/ \E item_id \in Ids : Reopen(item_id, now)
    \/ \E item_id \in Ids : ClickComplete(item_id)
    \/ \E item_id \in Ids, h \in HoursInputs, r \in RateInputs, n \in Uploads :
          HoursFormSave(item_id, h, r, n, now)
    \/ \E item_id \in Ids : HoursFormCancel(item_id)
    \/ \E item_id \in Ids : Approve(item_id, now)
    \/ \E item_id \in Ids, c \in Comments, n \in Uploads :
          RequestChanges(item_id, c, n, now)
    \/ \E item_id \in Ids : Revoke(item_id, now)

Spec == Init /\ [][Next]_vars

\* the clock may have moved on by the time a handler reads it again
Later == IF now < MaxTime THEN now + 1 ELSE now

\* one valid input of each form field
TitleGiven == {<<"Fix bug">>}
CommentGiven == {<<"note", " ">>}
HoursGiven == {33}
RateGiven == {36}

\* the same handlers under a clock that moves between two readings
NextClock ==
    \/ LoadSession
    \/ \E title \in TitleGiven, n \in Uploads : AddItem(title, n, MaxItems, Later)
    \/ \E item_id \in Ids : Start(item_id, Later)
    \/ \E item_id \in Ids : Delete(item_id)
    \/ \E item_id \in Ids, title \in TitleGiven, n \in Uploads :
          SaveEdit(item_id, title, n, Later)
    \/ \E item_id \in Ids, title \in TitleGiven, c \in CommentGiven,
          n \in Uploads, h \in HoursGiven, r \in RateGiven :
          SubmitFromReady(item_id, title, c, n, h, r, Later)
    \/ \E item_id \in Ids, c \in CommentGiven, n \in Uploads,
          h \in HoursGiven, r \in RateGiven :
          SubmitFromInProgress(item_id, c, n, h, r, Later)
    \/ \E item_id \in Ids : Reopen(item_id, Later)
    \/ \E item_id \in Ids : ClickComplete(item_id)
    \/ \E item_id \in Ids, h \in HoursGiven, r \in RateGiven, n \in Uploads :
          HoursFormSave(item_id, h, r, n, Later)
    \/ \E item_id \in Ids : HoursFormCancel(item_id)
    \/ \E item_id \in Ids : Approve(item_id, Later)
    \/ \E item_id \in Ids, c \in CommentGiven, n \in Uploads :
          RequestChanges(item_id, c, n, Later)
    \/ \E item_id \in Ids : Revoke(item_id, Later)

SpecClock == Init /\ [][NextClock]_vars

-----------------------------------------------------------------------------
(* Uploads, and uploads that fail *)

\* the exception of _save_uploaded_file is caught by nobody: the run of the
\* script ends there, without sanitize_items and save_data; the list in the
\* session state keeps what was done to it, and the file what the engine
\* wrote on the way. Line 353 of the next run sanitizes the list.
Abort(r) ==
    /\ items' = sanitize_items(r.its, next_uuid', now)
    /\ disk' = IF r.wr = <<>> THEN disk ELSE r.wr[Len(r.wr)]
    /\ writes' = r.wr
    /\ now' = now

FileError(op, item_id) == Last(op, item_id, None, None, FALSE)

\* the add form, the k-th of n files failing: the item is not in the list yet
AddItemFails(title, n, k, max_items) ==
    /\ strip(title) # <<>>
    /\ Len(items) < max_items
    /\ k \in 1..n
    /\ next_uuid + k <= MaxUuid
    /\ next_uuid' = next_uuid + 1 + k
    /\ Abort([its |-> items, wr |-> <<>>])
    /\ last' = FileError("create_file_error", next_uuid)
    /\ UNCHANGED awaiting_hours_id

\* lines 634-639 and 721-726 when the c-th call of _save_uploaded_file
\* raises: the odd calls are the handler's (lines 636, 723), the even ones
\* are made by append_history for the same file
AttachEachRaising(r, item_id, comment, u, c, ts) ==
    LET done == AttachEach(r, item_id, comment, u, (c - 1) \div 2, ts)
        i == Find(done.its, item_id)
        saved == _save_uploaded_file(item_id, u + c - 2, 1)
    IN  IF c % 2 = 1 THEN done
        ELSE [its |-> [done.its EXCEPT ![i].attachments = AddMissing(@, <<saved>>)],
              wr |-> done.wr]

\* where the failure hit: in the handler's own call or in append_history
FailedIn(op, c) == IF c % 2 = 1 THEN op ELSE "append_file_error"

\* "Save" of the edit form, the c-th store failing
SaveEditFails(item_id, new_title, n, c, tmax) ==
    /\ InColumn(item_id, "ready")
    /\ c \in 1..(2 * n)
    /\ FreshOk(c)
    /\ HistOk(item_id, (c - 1) \div 2)
    /\ \E ts \in Stamps(now, 2 * n, tmax) :
        LET i == Find(items, item_id)
            its1 == [items EXCEPT ![i].title = strip(new_title)]
        IN  /\ next_uuid' = next_uuid + c
            /\ Abort(AttachEachRaising([its |-> its1, wr |-> <<>>], item_id,
                                       <<"Added attachment">>, next_uuid, c, ts))
    /\ last' = FileError(FailedIn("edit_file_error", c), item_id)
    /\ UNCHANGED awaiting_hours_id

\* "Submit to Owner", the k-th of n files failing
SubmitToOwnerFails(item_id, new_title, dev_resp, n, k) ==
    /\ strip(dev_resp) # <<>>
    /\ k \in 1..n
    /\ FreshOk(k)
    /\ LET i == Find(items, item_id)
           its1 == [items EXCEPT ![i].title = strip(new_title)]
       IN  /\ next_uuid' = next_uuid + k
           /\ Abort(submit_back_to_owner_raising(its1, item_id,
                        SavedPaths(item_id, next_uuid, k - 1)))
    /\ last' = FileError("respond_to_changes_file_error", item_id)
    /\ UNCHANGED awaiting_hours_id

SubmitFromReadyFails(item_id, new_title, dev_resp, n, k) ==
    /\ InColumn(item_id, "ready")
    /\ SubmitToOwnerFails(item_id, new_title, dev_resp, n, k)

SubmitFromInProgressFails(item_id, dev_resp, n, k) ==
    /\ InColumn(item_id, "inprogress")
    /\ SubmitToOwnerFails(item_id, Item(item_id).title, dev_resp, n, k)

\* "Save Hours & Complete", the c-th store failing: lines 729-730 are not
\* reached
HoursFormSaveFails(item_id, hrs, rate_now, n, c, tmax) ==
    /\ HoursFormShown(item_id)
    /\ c \in 1..(2 * n)
    /\ FreshOk(c)
    /\ HistOk(item_id, 1 + (c - 1) \div 2)
    /\ \E ts \in Stamps(now, 3 + 2 * n, tmax) :
        LET updated == set_hours_and_complete(items, item_id, hrs, rate_now, ts)
        IN  /\ next_uuid' = next_uuid + c
            /\ Abort(AttachEachRaising(updated, item_id,
                        <<"Added attachments on completion">>, next_uuid, c,
                        SubSeq(ts, 4, Len(ts))))
    /\ last' = FileError(FailedIn("complete_file_error", c), item_id)
    /\ UNCHANGED awaiting_hours_id

\* "Request changes / Send to Developer", the k-th of n files failing
RequestChangesFails(item_id, review_txt, n, k) ==
    /\ NeedsApproval(item_id)
    /\ strip(review_txt) # <<>>
    /\ k \in 1..n
    /\ FreshOk(k)
    /\ next_uuid' = next_uuid + k
    /\ Abort(request_review_raising(items, item_id, strip(review_txt),
                                    SavedPaths(item_id, next_uuid, k - 1)))
    /\ last' = FileError("request_changes_file_error", item_id)
    /\ UNCHANGED awaiting_hours_id

Files == 0..MaxFiles

\* the handlers with files uploaded, each file stored or failing
NextFiles ==
    \/ LoadSession
    \/ \E title \in TitleGiven, n \in Files : AddItem(title, n, MaxItems, now)
    \/ \E title \in TitleGiven, n \in Files, k \in Files :
          AddItemFails(title, n, k, MaxItems)
    \/ \E item_id \in Ids : Start(item_id, now)
    \/ \E item_id \in Ids : Delete(item_id)
    \/ \E item_id \in Ids, title \in TitleGiven, n \in Files :
          SaveEdit(item_id, title, n, now)
    \/ \E item_id \in Ids, title \in TitleGiven, n \in Files, c \in 1..(2 * MaxFiles) :
          SaveEditFails(item_id, title, n, c, now)
    \/ \E item_id \in Ids, title \in TitleGiven, c \in CommentGiven, n \in Files,
          h \in HoursGiven, r \in RateGiven :
          SubmitFromReady(item_id, title, c, n, h, r, now)
    \/ \E item_id \in Ids, title \in TitleGiven, c \in CommentGiven, n \in Files,
          k \in Files : SubmitFromReadyFails(item_id, title, c, n, k)
    \/ \E item_id \in Ids, c \in CommentGiven, n \in Files,
          h \in HoursGiven, r \in RateGiven :
          SubmitFromInProgress(item_id, c, n, h, r, now)
    \/ \E item_id \in Ids, c \in CommentGiven, n \in Files, k \in Files :
          SubmitFromInProgressFails(item_id, c, n, k)
    \/ \E item_id \in Ids : Reopen(item_id, now)
    \/ \E item_id \in Ids : ClickComplete(item_id)
    \/ \E item_id \in Ids, h \in HoursGiven, r \in RateGiven, n \in Files :
          HoursFormSave(item_id, h, r, n, now)
    \/ \E item_id \in Ids, h \in HoursGiven, r \in RateGiven, n \in Files,
          c \in 1..(2 * MaxFiles) : HoursFormSaveFails(item_id, h, r, n, c, now)
    \/ \E item_id \in Ids : HoursFormCancel(item_id)
    \/ \E item_id \in Ids : Approve(item_id, now)
    \/ \E item_id \in Ids, c \in CommentGiven, n \in Files :
          RequestChanges(item_id, c, n, now)
    \/ \E item_id \in Ids, c \in CommentGiven, n \in Files, k \in Files :
          RequestChangesFails(item_id, c, n, k)
    \/ \E item_id \in Ids : Revoke(item_id, now)

SpecFiles == Init /\ [][NextFiles]_vars

-----------------------------------------------------------------------------
(* The store on its own *)

\* what a data file may hold in the place of a record
RawValues ==
    {PyNone,
     PyStr(<<"x">>),
     PyDict(EmptyDict),
     PyDict([title |-> PyStr(<<" ", "Fix bug">>), status |-> PyStr("done")]),
     PyDict(AsDict(StoredRecord)),
     PyDict([id |-> PyStr(1), comment_history |-> PyStr(<<"x">>)]),
     PyDict([id |-> PyStr(1),
             comment_history |->
                PyList(<<PyStr(<<"x">>),
                         PyDict([comment |-> PyNone, attachments |-> PyNone]),
                         PyDict([actor |-> PyStr("owner"),
                                 comment |-> PyStr(<<" ", "note">>),
                                 attachments |-> PyList(<<<<1, 1>>>>),
                                 at |-> PyStr(0)])>>)]),
     PyDict([id |-> PyStr(2), title |-> PyNone, archived |-> PyStr(<<"x">>),
             hours |-> PyStr(<<"x">>), updated_at |-> PyNone]),
     PyDict([id |-> PyStr(2), title |-> PyStr(<<"Fix bug">>),
             attachments |-> PyNone]),
     PyDict([id |-> PyStr(2),
             comment_history |->
                PyList(<<PyDict([actor |-> PyStr("dev"),
                                 attachments |-> PyFloat(5)])>>)])}

MaxRecs == 2

RawLists == UNION {[1..n -> RawValues] : n \in 0..MaxRecs}

RawDocs ==
    {[shape |-> "missing", recs |-> <<>>],
     [shape |-> "unparsable", recs |-> <<>>],
     [shape |-> "scalar", recs |-> <<>>]}
    \cup {[shape |-> sh, recs |-> recs] :
             sh \in {"list", "items", "mapping"}, recs \in RawLists}

InitStore ==
    /\ disk \in RawDocs
    /\ now = 0
    /\ items = sanitize_items(load_data(disk, 1, now), 1, now)
    /\ next_uuid = 1 + Len(items)
    /\ awaiting_hours_id = None
    /\ writes = <<>>
    /\ last = Last("load", None, None, None, TRUE)

\* line 353, run at the top of every rerun of the script
Rerun ==
    /\ items' = sanitize_items(items, next_uuid, now)
    /\ writes' = <<>>
    /\ last' = Last("rerun", None, None, None, TRUE)
    /\ UNCHANGED <<disk, awaiting_hours_id, now, next_uuid>>

NextStore ==
    \/ LoadSession
    \/ Rerun
    \/ \E item_id \in Ids : SaveEdit(item_id, Item(item_id).title, 0, now)
    \/ \E item_id \in Ids : Delete(item_id)

SpecStore == InitStore /\ [][NextStore]_vars

-----------------------------------------------------------------------------
(* Properties *)

ItemIn(its, item_id) == its[Find(its, item_id)]

\* a is p / 100 rounded to the nearest integer, a tie going to the even one:
\* round(x, 2) in cents of a product p given in 1/10000
Nearest(a, p) ==
    /\ 100 * a - p \in -50..50
    /\ (100 * a - p \in {-50, 50}) => a % 2 = 0

\* the last entry of the item's history
LastEntry(it) == it.comment_history[Len(it.comment_history)]

\* C1: every item's status is one of ready, inprogress, completed, and right
\* after a load every record whose stored status is missing or unrecognised
\* has status ready.
C1_StatusIsValid ==
    /\ \A i \in DOMAIN items : items[i].status \in {"ready", "inprogress", "completed"}
    /\ (last.op = "load" /\ disk.shape = "list") =>
          \A i \in DOMAIN disk.recs :
              LET st == Get(disk.recs[i].val, "status", PyNone)
              IN  ~(st.type = "str" /\ st.val \in {"ready", "inprogress", "completed"})
                      => items[i].status = "ready"

C1_Witness ==
    /\ last.op = "load"
    /\ disk.shape = "list"
    /\ \E i \in DOMAIN disk.recs :
          /\ Get(disk.recs[i].val, "status", PyNone) = PyStr("done")
          /\ items[i].status = "ready"

\* C2: an item whose review_requested flag is true has status inprogress.
C2_ReviewRequestedIsInProgress ==
    \A i \in DOMAIN items :
        items[i].review_requested => items[i].status = "inprogress"

\* C3: an item's completed_at is set if and only if its status is completed.
C3_CompletedAtIffCompleted ==
    \A i \in DOMAIN items :
        (items[i].completed_at # None) <=> (items[i].status = "completed")

\* C4: whenever hours and rate_at_completion are both present, amount is
\* hours * rate_at_completion rounded to 2 decimal places.
C4_AmountIsDerived ==
    \A i \in DOMAIN items :
        (items[i].hours # None /\ items[i].rate_at_completion # None) =>
            /\ items[i].amount # None
            /\ Nearest(items[i].amount, items[i].hours * items[i].rate_at_completion)

\* C5: right after complete(item, h, r) the item has hours h, rate r, amount
\* round(h * r, 2), status completed and is pending approval.
C5_AfterComplete ==
    last.op = "complete" =>
        LET it == Item(last.id)
        IN  /\ it.hours = last.hours
            /\ it.rate_at_completion = last.rate
            /\ Nearest(it.amount, last.hours * last.rate)
            /\ it.status = "completed"
            /\ ~it.owner_approved

\* 0.33 h at 0.36 is 0.1188, which rounds up to 0.12
C5_Witness ==
    /\ last.op = "complete"
    /\ last.hours = 33
    /\ last.rate = 36
    /\ Item(last.id).amount = 12

\* C6: complete called with hours = 0 (the form has no comment to give) is
\* rejected: the collection in memory and the document on disk are unchanged
\* and no write is issued.
C6_ZeroHoursRejected ==
    [][(last'.op = "complete" /\ last'.hours = 0) =>
          (items' = items /\ disk' = disk /\ writes' = <<>>)]_vars

\* C7: a validation failure (blank title on create, blank comment on
\* request_changes or respond_to_changes) leaves the collection in memory and
\* the document on disk as they were, and writes nothing.
C7_RefusalChangesNothing ==
    [][(last'.op \in {"create", "request_changes", "respond_to_changes"}
            /\ ~last'.ok) =>
          (items' = items /\ disk' = disk /\ writes' = <<>>)]_vars

C7_Witness ==
    /\ last = Refused("request_changes")
    /\ \E i \in DOMAIN items : items[i].status = "completed"

\* C8: an item's status becomes completed only from inprogress.
C8_CompletedOnlyFromInProgress ==
    [][\A item_id \in Ids :
          (/\ Find(items', item_id) # 0
           /\ ItemIn(items', item_id).status = "completed"
           /\ Item(item_id).status # "completed")
          => Item(item_id).status = "inprogress"]_vars

\* C9: request_changes leaves the item inprogress with review_requested true,
\* approval cleared and un-archived; respond_to_changes leaves it completed
\* with review_requested false. This holds of the handlers, and of the two
\* engine operations applied to any item of any reachable collection.
C9_ReviewRoundTrip ==
    /\ (last.op = "request_changes" /\ last.ok) =>
          LET it == Item(last.id)
          IN  /\ it.status = "inprogress"
              /\ it.review_requested
              /\ ~it.owner_approved
              /\ ~it.archived
    /\ (last.op = "respond_to_changes" /\ last.ok) =>
          LET it == Item(last.id)
          IN  it.status = "completed" /\ ~it.review_requested
    /\ \A i \in DOMAIN items :
          LET ts == [k \in 1..4 |-> now]
              req == request_review(items, items[i].id, <<"redo">>, <<>>, ts).its[i]
              res == submit_back_to_owner(items, items[i].id, <<"fixed">>, <<>>,
                                          None, None, ts).its[i]
          IN  /\ req.status = "inprogress"
              /\ req.review_requested
              /\ ~req.owner_approved
              /\ ~req.archived
              /\ res.status = "completed"
              /\ ~res.review_requested

\* the item was sent back by the owner and the developer has answered
C9_Witness ==
    /\ last.op = "respond_to_changes"
    /\ last.ok
    /\ \E k \in DOMAIN Item(last.id).comment_history :
          /\ Item(last.id).comment_history[k].actor = "owner"
          /\ Item(last.id).comment_history[k].comment = <<"note">>
    /\ LastEntry(Item(last.id)).actor = "dev"

\* C10: respond_to_changes with new hours and no rate keeps the locked rate
\* and sets amount = round(new hours * that rate, 2); with neither it leaves
\* hours, rate and amount unchanged; either way the item ends completed and
\* pending approval.
C10_RespondKeepsRate ==
    [][(last'.op = "respond_to_changes" /\ last'.ok /\ last'.rate = None) =>
          LET old == Item(last'.id)
              new == ItemIn(items', last'.id)
          IN  /\ (last'.hours # None /\ old.rate_at_completion # None) =>
                    /\ new.hours = last'.hours
                    /\ new.rate_at_completion = old.rate_at_completion
                    /\ Nearest(new.amount, last'.hours * old.rate_at_completion)
              /\ last'.hours = None =>
                    /\ new.hours = old.hours
                    /\ new.rate_at_completion = old.rate_at_completion
                    /\ new.amount = old.amount
              /\ new.status = "completed"
              /\ ~new.owner_approved]_vars

\* a is a prefix of b
IsPrefix(a, b) == Len(a) <= Len(b) /\ SubSeq(b, 1, Len(a)) = a

OneMore(a, b, actor) ==
    /\ Len(b.comment_history) = Len(a.comment_history) + 1
    /\ IsPrefix(a.comment_history, b.comment_history)
    /\ LastEntry(b).actor = actor

\* C12: complete, approve, request_changes and respond_to_changes each append
\* exactly one entry to the item's history, of actor dev for complete and
\* respond_to_changes and owner for approve and request_changes; approve on
\* an approved item leaves its status and flags and appends one more
\* "Approved" entry. This holds of the engine operations applied to any item
\* of any reachable collection and of the handlers; "Save Hours & Complete"
\* appends the entry of complete first, then one entry per uploaded file.
C12_OneEntryPerOperation ==
    [][/\ \A i \in DOMAIN items :
             LET ts == [k \in 1..4 |-> now]
                 it == items[i]
                 com == set_hours_and_complete(items, it.id, 33, 36, ts).its[i]
                 app == approve_item(items, it.id, ts).its[i]
                 req == request_review(items, it.id, <<"redo">>, <<>>, ts).its[i]
                 res == submit_back_to_owner(items, it.id, <<"fixed">>, <<>>,
                                             None, None, ts).its[i]
             IN  /\ OneMore(it, com, "dev")
                 /\ OneMore(it, app, "owner")
                 /\ LastEntry(app).comment = <<"Approved">>
                 /\ OneMore(it, req, "owner")
                 /\ OneMore(it, res, "dev")
                 /\ it.owner_approved =>
                       /\ app.owner_approved
                       /\ app.status = it.status
                       /\ app.archived = it.archived
                       /\ app.review_requested = it.review_requested
       /\ (last'.ok /\ last'.op \in {"approve", "request_changes"}) =>
             OneMore(Item(last'.id), ItemIn(items', last'.id), "owner")
       /\ (last'.ok /\ last'.op = "respond_to_changes") =>
             OneMore(Item(last'.id), ItemIn(items', last'.id), "dev")
       /\ last'.op = "complete" =>
             LET old == Item(last'.id).comment_history
                 new == ItemIn(items', last'.id).comment_history
             IN  /\ Len(new) > Len(old)
                 /\ IsPrefix(old, new)
                 /\ new[Len(old) + 1].actor = "dev"
                 /\ new[Len(old) + 1].attachments = <<>>]_vars

\* an approved item, on which approve can be invoked again
C12_Witness ==
    /\ last.op = "approve"
    /\ Item(last.id).owner_approved
    /\ LastEntry(Item(last.id)).comment = <<"Approved">>
    /\ HistOk(last.id, 1)

\* the user actions that change the collection
Changing ==
    {"create", "start", "reopen", "complete", "approve", "revoke",
     "request_changes", "respond_to_changes", "edit", "delete"}

\* C13: after every completed user action that changes the collection, the
\* document on disk is the collection in memory, and it is the last document
\* written; no user action changes the collection without writing it.
C13_DiskIsMemory ==
    [][/\ (last'.ok /\ last'.op \in Changing) =>
             /\ disk' = save_data(items')
             /\ writes' # <<>>
             /\ writes'[Len(writes')] = disk'
       /\ (items' # items /\ last'.op # "load") =>
             (last'.ok /\ last'.op \in Changing)]_vars

C13_Witness ==
    /\ last.op = "start"
    /\ Item(last.id).status = "inprogress"
    /\ disk = save_data(items)

\* C16: for every collection the program holds, load(persist(items)) is
\* normalize(items), whatever uuid4 and clock the load meets; after a write
\* the document on disk is the one written last, and when the handler that
\* wrote it has ended, loading it gives the collection that handler saved.
C16_LoadAfterPersist ==
    /\ \A u \in next_uuid..(next_uuid + 1), t \in now..(now + 1) :
          load_data(save_data(items), u, t) = sanitize_items(items, u, t)
    /\ writes # <<>> =>
          /\ disk = writes[Len(writes)]
          /\ last.ok => load_data(disk, next_uuid, now + 1) = items

\* a collection with an item that has hours, an amount and a history
C16_Witness ==
    /\ writes # <<>>
    /\ \E i \in DOMAIN items :
          /\ items[i].hours = 33
          /\ items[i].amount = 12
          /\ Len(items[i].comment_history) >= 2
          /\ items[i].title = <<"Fix bug">>

\* C14: under a clock that never goes backwards, a step that changes an item
\* leaves its updated_at at a reading taken during the step; updated_at never
\* decreases and is never earlier than created_at or than the timestamp of
\* any entry of the item's history.
C14_UpdatedAtIsLatest ==
    [][\A item_id \in Ids :
          Find(items', item_id) # 0 =>
              LET old == Item(item_id)
                  new == ItemIn(items', item_id)
              IN  /\ new.updated_at >= old.updated_at
                  /\ new # old => new.updated_at \in now..now'
                  /\ new.updated_at >= new.created_at
                  /\ \A k \in DOMAIN new.comment_history :
                        new.comment_history[k].at <= new.updated_at]_vars

\* C15: normalize is idempotent: for every stored record x on which it
\* completes (empty, partial, fully formed, with a comment_history that is not
\* a list or has entries that are not dicts), normalizing normalize(x) again,
\* with another uuid4 at hand and at a later time, gives normalize(x); and
\* so it is for every item in memory.
C15_NormalizeIdempotent ==
    /\ \A i \in DOMAIN Records(disk) :
          LET x == Records(disk)[i].val
              y == _coerce_item(x, next_uuid, now)
          IN  ~CoerceRaises(x) =>
                  _coerce_item(AsDict(y), next_uuid + 1, now + 1) = y
    /\ sanitize_items(items, next_uuid + 1, now + 1) = items

\* a record whose history held an entry that is not a dict, an entry without
\* actor and timestamp, and a whole entry, read at time 0 and looked at again
\* later
C15_Witness ==
    /\ \E i \in DOMAIN items :
          /\ Len(items[i].comment_history) = 2
          /\ items[i].comment_history[1].actor = "system"
          /\ items[i].comment_history[2].comment = <<" ", "note">>
    /\ \E i \in DOMAIN Records(disk) :
          /\ "id" \notin DOMAIN Records(disk)[i].val
          /\ "created_at" \notin DOMAIN Records(disk)[i].val
    /\ last.op = "rerun"

\* the record is read from the stored dict x
ReadFrom(it, x) ==
    \E u \in 1..(MaxUuid + MaxRecs) :
        it = _coerce_item(x, u, it.created_at)
        \/ it = _coerce_item(x, u, it.updated_at)

\* C17: load never fails; a missing file, unparsable content or a document
\* that is none of the three accepted shapes gives the empty collection, and
\* a bare list, a dict with an "items" list and a mapping of id to record
\* each give the normalized records they contain.
C17_LoadFailsSoft ==
    last.op = "load" =>
        /\ Len(items) = Len(Records(disk))
        /\ \A i \in DOMAIN items :
              LET x == Records(disk)[i].val
              IN  ~CoerceRaises(x) => ReadFrom(items[i], x)

\* C18: when a field of a stored record cannot be coerced (attachments that
\* is null, hours that is not a number), load gives that field its default
\* and still returns the record's other fields and every other record; and
\* normalization of a collection in memory does not fail.
C18_CoercionFailureIsLocal ==
    /\ last.op = "load" =>
          /\ Len(items) = Len(Records(disk))
          /\ \A i \in DOMAIN items :
                LET x == Records(disk)[i].val
                    atts == Get(x, "attachments", PyList(<<>>))
                    hours == Get(x, "hours", PyNone)
                IN  /\ items[i].title = strip(str(Get(x, "title", PyStr(<<>>))))
                    /\ ~Iterable(atts) => items[i].attachments = <<>>
                    /\ hours.type # "float" => items[i].hours = None
    /\ \A i \in DOMAIN items : ~CoerceRaises(AsDict(items[i]))

\* C19: when storing one uploaded file fails inside a ledger append, a
\* request_changes or a respond_to_changes, the comment entry is still
\* appended, and when the operation ends the item in memory and the document
\* on disk agree.
C19_FileFailureDoesNotAbort ==
    [][last'.op \in {"append_file_error", "request_changes_file_error",
                     "respond_to_changes_file_error"} =>
          /\ Len(ItemIn(items', last'.id).comment_history)
                > Len(Item(last'.id).comment_history)
          /\ disk' = save_data(items')]_vars

\* C20: every file reference in the attachments of an entry of an item's
\* history is in the item's flat attachments list, and the flat list holds
\* no reference twice.
C20_EntryFilesAreListed ==
    \A i \in DOMAIN items :
        /\ \A k \in DOMAIN items[i].comment_history :
              Range(items[i].comment_history[k].attachments)
                  \subseteq Range(items[i].attachments)
        /\ \A a, b \in DOMAIN items[i].attachments :
              a # b => items[i].attachments[a] # items[i].attachments[b]

\* an item created with a file, to which the owner's review added another
C20_Witness ==
    \E i \in DOMAIN items :
        /\ Len(items[i].attachments) = 2
        /\ \E k \in DOMAIN items[i].comment_history :
              /\ items[i].comment_history[k].actor = "owner"
              /\ items[i].comment_history[k].attachments # <<>>
        /\ items[i].comment_history[2].comment = <<"Initial attachments">>

-----------------------------------------------------------------------------
(* Board columns *)

\* the ids of the records of the document on disk
OnDisk ==
    {disk.recs[i].val.id.val :
        i \in {j \in DOMAIN disk.recs : "id" \in DOMAIN disk.recs[j].val}}

\* the number of cards the columns "ready" and "inprogress" show for an id
Cards(item_id) ==
    Cardinality({<<s, i>> \in {"ready", "inprogress"} \X (1..Len(items)) :
                    /\ i \in DOMAIN get_items_by_status(items, s)
                    /\ get_items_by_status(items, s)[i].id = item_id})

\* C21: an archived item is shown in neither active column of the board, yet
\* it is still in the collection in memory and in the document on disk; an
\* item that is not archived and is ready or in progress is shown exactly
\* once, in the column of its status.
C21_ArchivedOffTheBoard ==
    \A i \in DOMAIN items :
        /\ items[i].archived =>
              /\ ~InColumn(items[i].id, "ready")
              /\ ~InColumn(items[i].id, "inprogress")
              /\ Cards(items[i].id) = 0
              /\ items[i].id \in OnDisk
        /\ (~items[i].archived /\ items[i].status \in {"ready", "inprogress"}) =>
              /\ InColumn(items[i].id, items[i].status)
              /\ Cards(items[i].id) = 1

\* an item the developer completed (archived by that) and the owner sent
\* back: it was off the board and is on it again
C21_Witness ==
    \E i \in DOMAIN items :
        /\ items[i].status = "inprogress"
        /\ ~items[i].archived
        /\ items[i].review_requested
        /\ last.op = "request_changes" /\ last.ok

\* C22: Delete can be taken on every item of the collection, whatever its
\* stage (ready, in progress, completed and pending, approved, archived);
\* after it no item in memory and no record on disk has the id, and the
\* other items are as they were.
C22_DeleteAtEveryStage ==
    [][/\ \A i \in DOMAIN items : ENABLED Delete(items[i].id)
       /\ last'.op = "delete" =>
             /\ last'.id \notin {items'[i].id : i \in DOMAIN items'}
             /\ last'.id \notin OnDisk'
             /\ items' = SelectSeq(items, LAMBDA x : x.id # last'.id)]_vars

\* C23: "-> In Progress" and "Reopen" change the status of the item, its
\* updated_at and its completed_at (cleared) and nothing else: hours, rate,
\* amount, the archived, approval and review flags, the attachments and the
\* history are as before; and a ready item that is started and then reopened
\* is the item it was, up to updated_at.
C23_StatusChangeFrame ==
    [][/\ last'.op \in {"start", "reopen"} =>
             /\ Find(items', last'.id) # 0
             /\ ItemIn(items', last'.id) =
                   [Item(last'.id) EXCEPT
                       !.status = IF last'.op = "start" THEN "inprogress"
                                  ELSE "ready",
                       !.updated_at = ItemIn(items', last'.id).updated_at,
                       !.completed_at = None]
       /\ \A i \in DOMAIN items :
             InColumn(items[i].id, "ready") =>
                 \A t1 \in now..MaxTime : \A t2 \in t1..MaxTime :
                     set_status(set_status(items, items[i].id, "inprogress", t1),
                                items[i].id, "ready", t2)
                         = [items EXCEPT ![i].updated_at = t2]]_vars

\* an item that carries hours from an earlier completion is reopened after
\* the owner sent it back
C23_Witness ==
    /\ last.op = "reopen"
    /\ Item(last.id).status = "ready"
    /\ Item(last.id).hours # None
    /\ Item(last.id).review_requested

-----------------------------------------------------------------------------
(* Owner view *)

\* the handlers the owner board renders: "Approve" and the review form on a
\* task that needs approval, "Revoke approval" on an approved task
owner_board ==
    \/ \E item_id \in Ids : Approve(item_id, MaxTime)
    \/ \E item_id \in Ids, review_txt \in Comments, n \in Uploads :
          RequestChanges(item_id, review_txt, n, MaxTime)
    \/ \E item_id \in Ids : Revoke(item_id, MaxTime)

\* what the owner's role allows on an item: nothing, an approval, a request
\* for changes with its comment, or a comment; never a change of the title,
\* the hours, the rate or the amount
OwnerMay(old, new) ==
    /\ new.title = old.title
    /\ new.hours = old.hours
    /\ new.rate_at_completion = old.rate_at_completion
    /\ new.amount = old.amount
    /\ \/ new = old
       \/ /\ new.owner_approved
          /\ new.status = old.status
       \/ /\ new.status = "inprogress"
          /\ new.review_requested
          /\ new.review_comments # <<>>
       \/ new = [old EXCEPT !.comment_history = new.comment_history,
                            !.attachments = new.attachments,
                            !.updated_at = new.updated_at]

\* C24: a step taken from the owner view is an approval, a request for
\* changes or a comment on an existing item: it keeps every item, changes no
\* title, hours, rate or amount, and performs no other transition.
C24_OwnerViewIsRestricted ==
    [][owner_board =>
          /\ Len(items') = Len(items)
          /\ \A i \in DOMAIN items :
                /\ items'[i].id = items[i].id
                /\ OwnerMay(items[i], items'[i])]_vars

\* C25: every document written while the developer's response, the owner's
\* request for changes, an approval or a revocation runs is the collection
\* as it was before the operation or the collection as it is after it.
C25_WritesAreAtomic ==
    [][(last'.ok /\ last'.op \in {"respond_to_changes", "request_changes",
                                  "approve", "revoke"}) =>
          \A k \in DOMAIN writes' :
              writes'[k] \in {disk, save_data(items), save_data(items')}]_vars

-----------------------------------------------------------------------------
(* A session that starts without stored items *)

\* no document, or a document with an empty list
InitEmpty ==
    /\ Init
    /\ items = <<>>

SpecEmpty == InitEmpty /\ [][Next]_vars

\* C26: when the collection starts empty, an item is archived exactly when
\* its status is completed: completing and responding archive the item, a
\* request for changes takes it out of the archive, and no other action of
\* the boards changes the archived flag.
C26_ArchivedIffCompleted ==
    [][/\ \A i \in DOMAIN items : items[i].archived <=> items[i].status = "completed"
       /\ \A i \in DOMAIN items' : items'[i].archived <=> items'[i].status = "completed"
       /\ \A i \in DOMAIN items' :
             LET id == items'[i].id
             IN  /\ (last'.ok /\ last'.id = id
                        /\ last'.op \in {"complete", "respond_to_changes"})
                      => items'[i].archived
                 /\ (last'.ok /\ last'.id = id /\ last'.op = "request_changes")
                      => ~items'[i].archived
                 /\ (Find(items, id) # 0
                        /\ ~(last'.id = id
                             /\ last'.op \in {"complete", "respond_to_changes",
                                              "request_changes"}))
                      => items'[i].archived = Item(id).archived]_vars

\* an item created in this session was completed with hours, sent back by
\* the owner and is on the board again
C26_Witness ==
    \E i \in DOMAIN items :
        /\ items[i].status = "inprogress"
        /\ ~items[i].archived
        /\ items[i].hours # None
        /\ items[i].comment_history[1].comment = <<"Task created">>
        /\ last.op = "request_changes" /\ last.ok

\* C27: when the collection starts empty, every completed item has hours, a
\* rate at completion and an amount.
C27_CompletedIsBilled ==
    \A i \in DOMAIN items :
        items[i].status = "completed" =>
            /\ items[i].hours # None
            /\ items[i].rate_at_completion # None
            /\ items[i].amount # None

-----------------------------------------------------------------------------
(* Approval *)

\* C28: an item the owner has approved is completed; "Approve" acts only on
\* a completed item that is pending approval; and after a request for
\* changes, a start or a reopen the item is not approved.
C28_ApprovedIsCompleted ==
    [][/\ \A i \in DOMAIN items :
             items[i].owner_approved => items[i].status = "completed"
       /\ \A i \in DOMAIN items' :
             items'[i].owner_approved => items'[i].status = "completed"
       /\ last'.op = "approve" =>
             /\ Item(last'.id).status = "completed"
             /\ ~Item(last'.id).owner_approved
             /\ ItemIn(items', last'.id).owner_approved
       /\ (last'.ok /\ last'.op \in {"request_changes", "start", "reopen"}) =>
             /\ ItemIn(items', last'.id).status # "completed"
             /\ ~ItemIn(items', last'.id).owner_approved]_vars

\* the owner approved, revoked and approved again
C28_Witness ==
    /\ last.op = "approve"
    /\ Item(last.id).owner_approved
    /\ Item(last.id).status = "completed"
    /\ Len(Item(last.id).comment_history) = 4

\* C29: no item is approved and under review at once, and "Approve" is
\* never taken on an item whose review_requested flag is set.
C29_ApprovedNotInReview ==
    [][/\ \A i \in DOMAIN items :
             ~(items[i].owner_approved /\ items[i].review_requested)
       /\ \A i \in DOMAIN items' :
             ~(items'[i].owner_approved /\ items'[i].review_requested)
       /\ last'.op = "approve" => ~Item(last'.id).review_requested]_vars

\* the owner asked for changes, the developer responded, the owner approved
C29_Witness ==
    /\ last.op = "approve"
    /\ Item(last.id).owner_approved
    /\ ~Item(last.id).review_requested
    /\ Item(last.id).dev_response_comments # <<>>
    /\ \E k \in DOMAIN Item(last.id).comment_history :
          /\ Item(last.id).comment_history[k].actor = "owner"
          /\ k < Len(Item(last.id).comment_history)

-----------------------------------------------------------------------------
(* Two items *)

PairItems == 2

\* the handlers of both boards on a collection of up to PairItems items,
\* with one title, one comment and one pair of numbers to type
NextPair ==
    \/ LoadSession
    \/ \E title \in TitleGiven, n \in Uploads : AddItem(title, n, PairItems, now)
    \/ \E item_id \in Ids : Start(item_id, now)
    \/ \E item_id \in Ids : Delete(item_id)
    \/ \E item_id \in Ids, title \in TitleGiven, n \in Uploads :
          SaveEdit(item_id, title, n, now)
    \/ \E item_id \in Ids, title \in TitleGiven, c \in CommentGiven,
          n \in Uploads, h \in HoursGiven, r \in RateGiven :
          SubmitFromReady(item_id, title, c, n, h, r, now)
    \/ \E item_id \in Ids, c \in CommentGiven, n \in Uploads,
          h \in HoursGiven, r \in RateGiven :
          SubmitFromInProgress(item_id, c, n, h, r, now)
    \/ \E item_id \in Ids : Reopen(item_id, now)
    \/ \E item_id \in Ids : ClickComplete(item_id)
    \/ \E item_id \in Ids, h \in HoursGiven, r \in RateGiven, n \in Uploads :
          HoursFormSave(item_id, h, r, n, now)
    \/ \E item_id \in Ids : HoursFormCancel(item_id)
    \/ \E item_id \in Ids : Approve(item_id, now)
    \/ \E item_id \in Ids, c \in CommentGiven, n \in Uploads :
          RequestChanges(item_id, c, n, now)
    \/ \E item_id \in Ids : Revoke(item_id, now)

SpecPair == InitEmpty /\ [][NextPair]_vars

\* its is the collection "before" with at most the item of this id changed;
\* when no item has the id, nothing is changed and nothing is written
OnlyThat(before, item_id, r) ==
    /\ Len(r.its) = Len(before)
    /\ \A j \in DOMAIN before : j # Find(before, item_id) => r.its[j] = before[j]
    /\ Find(before, item_id) = 0 => (r.its = before /\ r.wr = <<>>)

\* the readings of the clock an operation takes, none later than another
Readings == [k \in 1..6 |-> now]

\* C30: an engine operation addressed to an id (set_status, complete,
\* set_archived, append, request changes, respond, approve, revoke) leaves
\* every other item of the collection as it was; addressed to an id no item
\* has, it changes nothing in memory and writes nothing. The handlers that
\* call them leave the other items unchanged too.
C30_OtherItemsUntouched ==
    [][/\ \A item_id \in 0..MaxUuid :
             /\ \A s \in Range(STATUSES) :
                   OnlyThat(items, item_id,
                            [its |-> set_status(items, item_id, s, now), wr |-> <<>>])
             /\ \A h \in HoursGiven, r \in RateGiven :
                   /\ OnlyThat(items, item_id,
                               set_hours_and_complete(items, item_id, h, r, Readings))
                   /\ OnlyThat(items, item_id,
                               submit_back_to_owner(items, item_id, <<"note">>,
                                                    <<>>, h, r, Readings))
             /\ \A a \in BOOLEAN :
                   OnlyThat(items, item_id, set_archived(items, item_id, a, now))
             /\ OnlyThat(items, item_id,
                         append_history(items, item_id, "dev", <<"note">>,
                                        <<>>, Readings))
             /\ OnlyThat(items, item_id,
                         request_review(items, item_id, <<"note">>, <<>>, Readings))
             /\ OnlyThat(items, item_id, approve_item(items, item_id, Readings))
             /\ OnlyThat(items, item_id, revoke_approval(items, item_id, Readings))
       /\ (last'.op \in {"start", "reopen", "complete", "respond_to_changes",
                         "request_changes", "approve", "revoke"}) =>
             /\ Len(items') = Len(items)
             /\ \A j \in DOMAIN items :
                   items[j].id # last'.id => items'[j] = items[j]]_vars

\* two items, one approved a moment ago while the other is being worked on
C30_Witness ==
    /\ Len(items) = 2
    /\ last.op = "approve"
    /\ Item(last.id).owner_approved
    /\ \E j \in DOMAIN items :
          /\ items[j].id # last.id
          /\ items[j].status = "inprogress"

====
